---------------------------- MODULE Spec2Model ----------------------------
(***************************************************************************)
(* The three console assistants of the repository                          *)
(*   country_info_toolkit.py  (CountryInfoOrchestrator and its tools)      *)
(*   mood_handoff.py          (MoodHandoffSystem and its two agents)       *)
(*   product_suggester.py     (ProductSuggester)                           *)
(* as one state machine.  A Python str is a sequence of one-character      *)
(* strings, so that strip(), lower(), title(), split() and startswith()    *)
(* are computed character by character.  A dict is a record or a function. *)
(* The generation provider is the environment: each generate_content call  *)
(* either returns a text or raises.                                        *)
(***************************************************************************)
EXTENDS Naturals, Sequences, FiniteSets, TLC

VARIABLES
    prog,        \* which program runs: "country", "mood" or "product"
    op,          \* the operation in progress ("none" between operations)
    pc,          \* position inside the operation
    input,       \* the str argument of the operation
    validation,  \* process_country_query: the validate_country result
    tool_results,\* process_country_query: the execute_all_tools result
    analysis,    \* mood_analysis (run) or analysis (process_query)
    mood,        \* run: the local mood; suggest_activity: its argument
    gen_calls,   \* the generate_content calls of this operation, in order
    result,      \* the value the operation returned
    raised,      \* TRUE when an exception left the operation
    mode,        \* "library": the methods are called directly;
                 \* "main": the file runs as __main__
    api_key,     \* os.getenv("GEMINI_API_KEY")
    output,      \* the last message printed by __main__ or run_interactive
    config_reports \* how many times the configuration error was printed

\* what __main__ and run_interactive add to the state of the operations
session == <<mode, api_key, output, config_reports>>

vars == <<prog, op, pc, input, validation, tool_results, analysis, mood,
          gen_calls, result, raised, mode, api_key, output, config_reports>>

(***************************************************************************)
(* Bounds of the model.                                                    *)
(***************************************************************************)
\* longest country name drawn from Alphabet
MaxLen == 4
\* most lines in a provider response
MaxLines == 2

(***************************************************************************)
(* Python str operations.                                                  *)
(***************************************************************************)
ToLower ==
       ("A" :> "a") @@ ("B" :> "b") @@ ("C" :> "c") @@ ("D" :> "d")
    @@ ("E" :> "e") @@ ("F" :> "f") @@ ("G" :> "g") @@ ("H" :> "h")
    @@ ("I" :> "i") @@ ("J" :> "j") @@ ("K" :> "k") @@ ("L" :> "l")
    @@ ("M" :> "m") @@ ("N" :> "n") @@ ("O" :> "o") @@ ("P" :> "p")
    @@ ("Q" :> "q") @@ ("R" :> "r") @@ ("S" :> "s") @@ ("T" :> "t")
    @@ ("U" :> "u") @@ ("V" :> "v") @@ ("W" :> "w") @@ ("X" :> "x")
    @@ ("Y" :> "y") @@ ("Z" :> "z")

UpperLetters == DOMAIN ToLower

LowerLetters == {ToLower[c] : c \in UpperLetters}

ToUpper == [c \in LowerLetters |-> CHOOSE u \in UpperLetters : ToLower[u] = c]

IsSpace(c) == c \in {" ", "\t", "\n", "\r"}

IsCased(c) == c \in UpperLetters \cup LowerLetters

LowerChar(c) == IF c \in UpperLetters THEN ToLower[c] ELSE c

UpperChar(c) == IF c \in LowerLetters THEN ToUpper[c] ELSE c

\* str.lower()
Lower(s) == [i \in 1..Len(s) |-> LowerChar(s[i])]

\* str.lstrip()
RECURSIVE LStrip(_)
LStrip(s) == IF s # <<>> /\ IsSpace(Head(s)) THEN LStrip(Tail(s)) ELSE s

\* str.rstrip()
RECURSIVE RStrip(_)
RStrip(s) ==
    IF s # <<>> /\ IsSpace(s[Len(s)]) THEN RStrip(SubSeq(s, 1, Len(s) - 1)) ELSE s

\* str.strip()
Strip(s) == LStrip(RStrip(s))

\* str.title(): a cased character is upper-cased when the character before
\* it is not cased and lower-cased otherwise
Title(s) ==
    [i \in 1..Len(s) |->
        IF IsCased(s[i])
        THEN IF i > 1 /\ IsCased(s[i - 1]) THEN LowerChar(s[i]) ELSE UpperChar(s[i])
        ELSE s[i]]

\* str.startswith(p)
StartsWith(s, p) == Len(s) >= Len(p) /\ SubSeq(s, 1, Len(p)) = p

\* str.replace(a, b) for one-character a and b
Replace(s, a, b) == [i \in 1..Len(s) |-> IF s[i] = a THEN b ELSE s[i]]

\* position of the first c in s, 0 when there is none
RECURSIVE FirstIndex(_, _, _)
FirstIndex(s, c, i) ==
    IF i > Len(s) THEN 0 ELSE IF s[i] = c THEN i ELSE FirstIndex(s, c, i + 1)

\* str.split(c): the pieces between the occurrences of c
RECURSIVE Split(_, _)
Split(s, c) ==
    LET k == FirstIndex(s, c, 1)
    IN  IF k = 0 THEN <<s>>
        ELSE <<SubSeq(s, 1, k - 1)>> \o Split(SubSeq(s, k + 1, Len(s)), c)

\* str.split(c, 1)[1]: what follows the first c
AfterFirst(s, c) == SubSeq(s, FirstIndex(s, c, 1) + 1, Len(s))

\* sep.join(parts)
RECURSIVE Join(_, _)
Join(parts, sep) ==
    IF parts = <<>> THEN <<>>
    ELSE IF Len(parts) = 1 THEN parts[1]
    ELSE parts[1] \o sep \o Join(Tail(parts), sep)

\* all sequences over S of length at most n
RECURSIVE SeqsUpTo(_, _)
SeqsUpTo(S, n) ==
    IF n = 0 THEN {<<>>}
    ELSE LET shorter == SeqsUpTo(S, n - 1)
         IN  shorter \cup {Append(s, c) : s \in shorter, c \in S}

None == [none |-> TRUE]

(***************************************************************************)
(* country_info_toolkit.py                                                 *)
(***************************************************************************)
country_capitals ==
       (<<"u","n","i","t","e","d"," ","s","t","a","t","e","s">> :> "Washington D.C.")
    @@ (<<"u","s","a">> :> "Washington D.C.")
    @@ (<<"u","n","i","t","e","d"," ","k","i","n","g","d","o","m">> :> "London")
    @@ (<<"u","k">> :> "London")
    @@ (<<"c","a","n","a","d","a">> :> "Ottawa")
    @@ (<<"a","u","s","t","r","a","l","i","a">> :> "Canberra")
    @@ (<<"i","n","d","i","a">> :> "New Delhi")
    @@ (<<"g","e","r","m","a","n","y">> :> "Berlin")
    @@ (<<"f","r","a","n","c","e">> :> "Paris")
    @@ (<<"j","a","p","a","n">> :> "Tokyo")
    @@ (<<"c","h","i","n","a">> :> "Beijing")
    @@ (<<"b","r","a","z","i","l">> :> "Brasilia")
    @@ (<<"r","u","s","s","i","a">> :> "Moscow")
    @@ (<<"m","e","x","i","c","o">> :> "Mexico City")
    @@ (<<"s","p","a","i","n">> :> "Madrid")
    @@ (<<"i","t","a","l","y">> :> "Rome")
    @@ (<<"s","o","u","t","h"," ","a","f","r","i","c","a">> :> "Pretoria")
    @@ (<<"e","g","y","p","t">> :> "Cairo")
    @@ (<<"a","r","g","e","n","t","i","n","a">> :> "Buenos Aires")
    @@ (<<"s","o","u","t","h"," ","k","o","r","e","a">> :> "Seoul")

country_languages ==
       (<<"u","n","i","t","e","d"," ","s","t","a","t","e","s">> :> "English")
    @@ (<<"u","s","a">> :> "English")
    @@ (<<"u","n","i","t","e","d"," ","k","i","n","g","d","o","m">> :> "English")
    @@ (<<"u","k">> :> "English")
    @@ (<<"c","a","n","a","d","a">> :> "English, French")
    @@ (<<"a","u","s","t","r","a","l","i","a">> :> "English")
    @@ (<<"i","n","d","i","a">> :> "Hindi, English (and 21 other official languages)")
    @@ (<<"g","e","r","m","a","n","y">> :> "German")
    @@ (<<"f","r","a","n","c","e">> :> "French")
    @@ (<<"j","a","p","a","n">> :> "Japanese")
    @@ (<<"c","h","i","n","a">> :> "Mandarin Chinese")
    @@ (<<"b","r","a","z","i","l">> :> "Portuguese")
    @@ (<<"r","u","s","s","i","a">> :> "Russian")
    @@ (<<"m","e","x","i","c","o">> :> "Spanish")
    @@ (<<"s","p","a","i","n">> :> "Spanish")
    @@ (<<"i","t","a","l","y">> :> "Italian")
    @@ (<<"s","o","u","t","h"," ","a","f","r","i","c","a">> :> "11 official languages including Zulu, Xhosa, Afrikaans, English")
    @@ (<<"e","g","y","p","t">> :> "Arabic")
    @@ (<<"a","r","g","e","n","t","i","n","a">> :> "Spanish")
    @@ (<<"s","o","u","t","h"," ","k","o","r","e","a">> :> "Korean")

country_populations ==
       (<<"u","n","i","t","e","d"," ","s","t","a","t","e","s">> :> "341 million")
    @@ (<<"u","s","a">> :> "341 million")
    @@ (<<"u","n","i","t","e","d"," ","k","i","n","g","d","o","m">> :> "67 million")
    @@ (<<"u","k">> :> "67 million")
    @@ (<<"c","a","n","a","d","a">> :> "39 million")
    @@ (<<"a","u","s","t","r","a","l","i","a">> :> "26 million")
    @@ (<<"i","n","d","i","a">> :> "1.43 billion")
    @@ (<<"g","e","r","m","a","n","y">> :> "83 million")
    @@ (<<"f","r","a","n","c","e">> :> "68 million")
    @@ (<<"j","a","p","a","n">> :> "125 million")
    @@ (<<"c","h","i","n","a">> :> "1.42 billion")
    @@ (<<"b","r","a","z","i","l">> :> "216 million")
    @@ (<<"r","u","s","s","i","a">> :> "144 million")
    @@ (<<"m","e","x","i","c","o">> :> "128 million")
    @@ (<<"s","p","a","i","n">> :> "48 million")
    @@ (<<"i","t","a","l","y">> :> "59 million")
    @@ (<<"s","o","u","t","h"," ","a","f","r","i","c","a">> :> "60 million")
    @@ (<<"e","g","y","p","t">> :> "110 million")
    @@ (<<"a","r","g","e","n","t","i","n","a">> :> "46 million")
    @@ (<<"s","o","u","t","h"," ","k","o","r","e","a">> :> "52 million")
\* the country names the model draws: every string over Alphabet of at most
\* MaxLen characters, and the names the documentation uses
Alphabet == {"u", "k", "U", "K", " "}

SampleCountries ==
    { <<"G","e","r","m","a","n","y">>,
      <<" "," ","U","S","A"," ">>,
      <<"u","s","a">>,
      <<"N","a","r","n","i","a">>,
      <<"s","o","u","t","h"," ","k","o","r","e","a">> }

CountryNames == SeqsUpTo(Alphabet, MaxLen) \cup SampleCountries

\* what generate_content may raise
GenerationErrors == {"network error", "provider error", "content filtered"}

\* the texts the provider may return for a report, a suggestion or a
\* recommendation
GeneratedTexts == { <<"o","k">>, <<" ","W","a","l","k"," ","\n">> }

\* GuardedSites when generate_recommendation calls the provider outside its try
GuardedSites_recommendation_unguarded ==
    { "generate_complete_report", "analyze_mood", "suggest_activity",
      "analyze_user_query" }

\* the generate_content calls that sit inside try: ... except Exception
GuardedSites ==
    { "generate_complete_report", "analyze_mood", "suggest_activity",
      "analyze_user_query", "generate_recommendation" }

\* CountryCapitalTool.execute when the key test accepts a prefix of a key
capital_execute_prefix(country_name) ==
    LET country_lower == Lower(Strip(country_name))
        hits == {k \in DOMAIN country_capitals : StartsWith(k, country_lower)}
    IN  IF country_lower # <<>> /\ hits # {}
        THEN [status |-> "success",
              capital |-> country_capitals[CHOOSE k \in hits : TRUE],
              country |-> Title(country_name)]
        ELSE [status |-> "error",
              message |-> [text |-> "Capital information not available for ",
                           country_name |-> country_name]]

\* CountryCapitalTool.execute
capital_execute(country_name) ==
    LET country_lower == Lower(Strip(country_name))
    IN  IF country_lower \in DOMAIN country_capitals
        THEN [status |-> "success",
              capital |-> country_capitals[country_lower],
              country |-> Title(country_name)]
        ELSE [status |-> "error",
              message |-> [text |-> "Capital information not available for ",
                           country_name |-> country_name]]

\* CountryLanguageTool.execute
language_execute(country_name) ==
    LET country_lower == Lower(Strip(country_name))
    IN  IF country_lower \in DOMAIN country_languages
        THEN [status |-> "success",
              language |-> country_languages[country_lower],
              country |-> Title(country_name)]
        ELSE [status |-> "error",
              message |-> [text |-> "Language information not available for ",
                           country_name |-> country_name]]

\* CountryPopulationTool.execute looking the name up without strip()
population_execute_unstripped(country_name) ==
    LET country_lower == Lower(country_name)
    IN  IF country_lower \in DOMAIN country_populations
        THEN [status |-> "success",
              population |-> country_populations[country_lower],
              country |-> Title(country_name)]
        ELSE [status |-> "error",
              message |-> [text |-> "Population information not available for ",
                           country_name |-> country_name]]

\* CountryPopulationTool.execute
population_execute(country_name) ==
    LET country_lower == Lower(Strip(country_name))
    IN  IF country_lower \in DOMAIN country_populations
        THEN [status |-> "success",
              population |-> country_populations[country_lower],
              country |-> Title(country_name)]
        ELSE [status |-> "error",
              message |-> [text |-> "Population information not available for ",
                           country_name |-> country_name]]

\* CountryInfoOrchestrator.available_tools
Tools == {"capital", "language", "population"}

tool_execute(tool, country_name) ==
    CASE tool = "capital" -> capital_execute(country_name)
      [] tool = "language" -> language_execute(country_name)
      [] tool = "population" -> population_execute(country_name)

\* CountryInfoOrchestrator.validate_country
validate_country(country_name) ==
    LET country_lower == Lower(Strip(country_name))
        exists_in_capitals == country_lower \in DOMAIN country_capitals
        exists_in_languages == country_lower \in DOMAIN country_languages
        exists_in_populations == country_lower \in DOMAIN country_populations
    IN  [is_valid |-> exists_in_capitals \/ exists_in_languages
                        \/ exists_in_populations,
         exists_in_capitals |-> exists_in_capitals,
         exists_in_languages |-> exists_in_languages,
         exists_in_populations |-> exists_in_populations]

\* CountryInfoOrchestrator.execute_all_tools
execute_all_tools(country_name) ==
    LET capital == capital_execute(country_name)
        language == language_execute(country_name)
        population == population_execute(country_name)
    IN  [country |-> Title(country_name),
         capital |-> capital,
         language |-> language,
         population |-> population,
         all_successful |-> \A r \in {capital, language, population} :
                                r.status # "error"]

\* the prompt of generate_complete_report
report_prompt(results) ==
    [country |-> results.country,
     capital |-> IF results.capital.status = "success"
                 THEN results.capital.capital ELSE "Not available",
     language |-> IF results.language.status = "success"
                  THEN results.language.language ELSE "Not available",
     population |-> IF results.population.status = "success"
                    THEN results.population.population ELSE "Not available"]

\* _create_fallback_report when the population line prints the language
_create_fallback_report_copied(results) ==
    [kind |-> "fallback",
     country |-> results.country,
     capital |-> IF results.capital.status = "success"
                 THEN <<"Capital: ", results.capital.capital>>
                 ELSE <<"Capital: ", "Information not available">>,
     language |-> IF results.language.status = "success"
                  THEN <<"Language: ", results.language.language>>
                  ELSE <<"Language: ", "Information not available">>,
     population |-> IF results.language.status = "success"
                    THEN <<"Population: ", results.language.language>>
                    ELSE <<"Population: ", "Information not available">>]

\* _create_fallback_report with the missing-value text of the prompt
_create_fallback_report_prompt_marker(results) ==
    [kind |-> "fallback",
     country |-> results.country,
     capital |-> IF results.capital.status = "success"
                 THEN <<"Capital: ", results.capital.capital>>
                 ELSE <<"Capital: ", "Not available">>,
     language |-> IF results.language.status = "success"
                  THEN <<"Language: ", results.language.language>>
                  ELSE <<"Language: ", "Not available">>,
     population |-> IF results.population.status = "success"
                    THEN <<"Population: ", results.population.population>>
                    ELSE <<"Population: ", "Not available">>]

\* CountryInfoOrchestrator._create_fallback_report
_create_fallback_report(results) ==
    [kind |-> "fallback",
     country |-> results.country,
     capital |-> IF results.capital.status = "success"
                 THEN <<"Capital: ", results.capital.capital>>
                 ELSE <<"Capital: ", "Information not available">>,
     language |-> IF results.language.status = "success"
                  THEN <<"Language: ", results.language.language>>
                  ELSE <<"Language: ", "Information not available">>,
     population |-> IF results.population.status = "success"
                    THEN <<"Population: ", results.population.population>>
                    ELSE <<"Population: ", "Information not available">>]

\* the subscripts of _create_fallback_report find their keys (a missing one
\* is a KeyError)
fallback_keys_present(results) ==
    /\ {"country", "capital", "language", "population"} \subseteq DOMAIN results
    /\ \A f \in {"capital", "language", "population"} :
          /\ "status" \in DOMAIN results[f]
          /\ results[f].status = "success" => f \in DOMAIN results[f]

\* the names whose tool records a direct caller combines
FallbackNames ==
    { <<"G","e","r","m","a","n","y">>, <<"u","k">>, <<"N","a","r","n","i","a">> }

\* the dicts a direct caller passes to _create_fallback_report: each tool's
\* record is one the tool returns, success or error, independently
FallbackInputs ==
    { [country |-> Title(n),
       capital |-> capital_execute(c),
       language |-> language_execute(l),
       population |-> population_execute(p),
       all_successful |-> \A r \in {capital_execute(c), language_execute(l),
                                    population_execute(p)} : r.status # "error"]
        : n \in {<<"u","k">>}, c \in FallbackNames, l \in FallbackNames, p \in FallbackNames }

\* the report generate_complete_report returns when the provider answered
generated_report(text) == [kind |-> "generated", text |-> text]

\* the early return when the message is built from the normalized name
validation_error_normalized(country_name) ==
    [status |-> "error",
     message |-> [text |-> "Sorry, I don't have information about '{country_name}' in my database.",
                  country_name |-> Lower(Strip(country_name))],
     suggestions |-> "Try countries like USA, India, Germany, Japan, Brazil, etc."]

\* the early return of process_country_query
validation_error(country_name) ==
    [status |-> "error",
     message |-> [text |-> "Sorry, I don't have information about '{country_name}' in my database.",
                  country_name |-> country_name],
     suggestions |-> "Try countries like USA, India, Germany, Japan, Brazil, etc."]

\* the final return of process_country_query
query_success(country_name, results, report, valid) ==
    [status |-> "success",
     country |-> Title(country_name),
     tool_results |-> results,
     report |-> report,
     validation |-> valid]

(***************************************************************************)
(* mood_handoff.py                                                         *)
(***************************************************************************)
s_neutral == <<"n","e","u","t","r","a","l">>

s_medium == <<"m","e","d","i","u","m">>

s_sad == <<"s","a","d">>

s_stressed == <<"s","t","r","e","s","s","e","d">>

s_anxious == <<"a","n","x","i","o","u","s">>

s_angry == <<"a","n","g","r","y">>

s_happy == <<"h","a","p","p","y">>

s_MOOD == <<"M","O","O","D",":">>

s_CONFIDENCE == <<"C","O","N","F","I","D","E","N","C","E",":">>

\* the label-like line starts and the texts after them that the model's
\* provider puts into an analysis of the mood
MoodLineStarts ==
    { s_MOOD, s_CONFIDENCE, <<"m","o","o","d",":">>,
      <<" ","M","O","O","D",":">>, <<"N","O","T","E",":">> }

MoodLineRests ==
    { <<" ","H","a","p","p","y">>, <<" ","S","A","D"," ">>, <<" ","H","i","g","h">> }

MoodLines == {a \o b : a \in MoodLineStarts, b \in MoodLineRests}

\* the texts of at most MaxLines lines drawn from Lines
ResponseTexts(Lines) ==
    {Join(ls, <<"\n">>) : ls \in SeqsUpTo(Lines, MaxLines)}

MoodResponses == ResponseTexts(MoodLines)

\* what the user types to the mood analyzer
UserMessages == { <<"h","i">>, <<"I"," ","a","m"," ","s","a","d">> }

\* the mood types the prompt of analyze_mood offers
documented_moods ==
    { s_happy, s_sad, s_stressed, s_anxious, <<"e","x","c","i","t","e","d">>,
      s_angry, <<"c","a","l","m">>, s_neutral }

\* the dict _parse_mood_response starts from
mood_data_init == [mood |-> s_neutral, confidence |-> s_medium]

\* the except branch of analyze_mood with the defaults of the product parser
analyze_mood_except_unknown ==
    [mood |-> <<"u","n","k","n","o","w","n">>,
     confidence |-> <<"u","n","k","n","o","w","n">>]

\* the except branch of analyze_mood when it reports a mood that is handed off
analyze_mood_except_sad == [mood |-> s_sad, confidence |-> s_medium]

\* the dict analyze_mood returns from its except branch
analyze_mood_except == [mood |-> s_neutral, confidence |-> s_medium]

\* the loop body of _parse_mood_response without lower()
parse_mood_line_as_written(mood_data, line) ==
    IF StartsWith(line, s_MOOD)
    THEN [mood_data EXCEPT !.mood = Strip(AfterFirst(line, ":"))]
    ELSE IF StartsWith(line, s_CONFIDENCE)
    THEN [mood_data EXCEPT !.confidence = Strip(AfterFirst(line, ":"))]
    ELSE mood_data

\* the loop body of _parse_mood_response keeping the default for a mood that
\* the prompt does not offer
parse_mood_line_validated(mood_data, line) ==
    IF StartsWith(line, s_MOOD)
    THEN IF Lower(Strip(AfterFirst(line, ":"))) \in documented_moods
         THEN [mood_data EXCEPT !.mood = Lower(Strip(AfterFirst(line, ":")))]
         ELSE mood_data
    ELSE IF StartsWith(line, s_CONFIDENCE)
    THEN [mood_data EXCEPT !.confidence = Lower(Strip(AfterFirst(line, ":")))]
    ELSE mood_data

\* the loop body of _parse_mood_response
parse_mood_line(mood_data, line) ==
    IF StartsWith(line, s_MOOD)
    THEN [mood_data EXCEPT !.mood = Lower(Strip(AfterFirst(line, ":")))]
    ELSE IF StartsWith(line, s_CONFIDENCE)
    THEN [mood_data EXCEPT !.confidence = Lower(Strip(AfterFirst(line, ":")))]
    ELSE mood_data

\* the loop of _parse_mood_response leaving at the first line without a label
RECURSIVE parse_mood_lines_until_unknown(_, _)
parse_mood_lines_until_unknown(lines, mood_data) ==
    IF lines = <<>> THEN mood_data
    ELSE IF ~StartsWith(Head(lines), s_MOOD) /\ ~StartsWith(Head(lines), s_CONFIDENCE)
    THEN mood_data
    ELSE parse_mood_lines_until_unknown(Tail(lines), parse_mood_line(mood_data, Head(lines)))

RECURSIVE parse_mood_lines(_, _)
parse_mood_lines(lines, mood_data) ==
    IF lines = <<>> THEN mood_data
    ELSE parse_mood_lines(Tail(lines), parse_mood_line(mood_data, Head(lines)))

\* MoodAnalyzerAgent._parse_mood_response
_parse_mood_response(response_text) ==
    parse_mood_lines(Split(Strip(response_text), "\n"), mood_data_init)

\* the prompt of analyze_mood
mood_prompt(user_message) == [site |-> "analyze_mood", user_message |-> user_message]

\* the handoff list of run with "neutral" added
handoff_moods_with_neutral == {s_sad, s_stressed, s_anxious, s_angry, s_neutral}

\* the handoff list of run without "sad"
handoff_moods_without_sad == {s_stressed, s_anxious, s_angry}

\* run: the moods that are handed off to the activity suggester
handoff_moods == {s_sad, s_stressed, s_anxious, s_angry}

\* suggest_activity: the moods an activity is generated for
activity_moods == {s_sad, s_stressed, s_anxious, s_angry}

\* ActivitySuggesterAgent.activity_templates
activity_templates ==
       (s_sad :> << "Take a walk in nature", "Listen to uplifting music",
                    "Write in a journal", "Call a friend or loved one",
                    "Watch a favorite movie" >>)
    @@ (s_stressed :> << "Practice deep breathing exercises",
                         "Try a short meditation session",
                         "Do some light stretching or yoga",
                         "Take a warm bath", "Drink herbal tea" >>)
    @@ (s_anxious :> << "Practice 4-7-8 breathing technique",
                        "Use the 5-4-3-2-1 grounding method",
                        "Write down your thoughts",
                        "Listen to calming sounds",
                        "Progressive muscle relaxation" >>)
    @@ (s_angry :> << "Physical exercise (running, boxing)",
                      "Punch a pillow or scream into it",
                      "Write a letter (but don't send it)",
                      "Count slowly to 10",
                      "Listen to heavy metal music" >>)

\* the activities _get_fallback_activity chooses among with random.choice
fallback_activities(m) ==
    LET activities == IF m \in DOMAIN activity_templates
                      THEN activity_templates[m]
                      ELSE << "Take a break and breathe deeply" >>
    IN  {activities[i] : i \in 1..Len(activities)}

\* the prompt of suggest_activity
activity_prompt(m, user_message) ==
    [site |-> "suggest_activity", mood |-> m, user_message |-> user_message]

\* suggest_activity: the return for a mood that needs no activity
positive_message(m) == [kind |-> "positive", mood |-> m]

\* ActivitySuggesterAgent._parse_activity_response
_parse_activity_response(response_text) ==
    [kind |-> "generated", text |-> Strip(response_text)]

\* suggest_activity: the return of the except branch
fallback_suggestion(activity, m) ==
    [kind |-> "fallback", activity |-> activity, mood |-> m]

\* the dict run builds before the handoff
run_result(user_message, mood_analysis, suggestion) ==
    [user_message |-> user_message,
     mood_analysis |-> mood_analysis,
     activity_suggestion |-> suggestion]

(***************************************************************************)
(* product_suggester.py                                                    *)
(***************************************************************************)
s_unknown == <<"u","n","k","n","o","w","n">>

s_CATEGORY == <<"C","A","T","E","G","O","R","Y",":">>

s_SEVERITY == <<"S","E","V","E","R","I","T","Y",":">>

s_SYMPTOMS == <<"S","Y","M","P","T","O","M","S",":">>

s_POTENTIAL_PRODUCTS ==
    <<"P","O","T","E","N","T","I","A","L","_","P","R","O","D","U","C","T","S",":">>

s_pain_relief == <<"p","a","i","n","_","r","e","l","i","e","f">>

s_cold_flu == <<"c","o","l","d","_","f","l","u">>

s_allergy == <<"a","l","l","e","r","g","y">>

s_digestive_health ==
    <<"d","i","g","e","s","t","i","v","e","_","h","e","a","l","t","h">>

s_first_aid == <<"f","i","r","s","t","_","a","i","d">>

s_not_specified == <<"N","o","t"," ","s","p","e","c","i","f","i","e","d">>

\* the label-like line starts and the texts after them that the model's
\* provider puts into an analysis of the query
ProductLineStarts ==
    { s_CATEGORY, s_SEVERITY, s_SYMPTOMS, s_POTENTIAL_PRODUCTS,
      <<"c","a","t","e","g","o","r","y",":">> }

ProductLineRests ==
    { <<" ","P","a","i","n","_","R","e","l","i","e","f">>,
      <<" ","M","i","l","d"," ">>,
      <<" ","a"," ",","," ","b">> }

ProductLines == {a \o b : a \in ProductLineStarts, b \in ProductLineRests}

ProductResponses == ResponseTexts(ProductLines)

\* what the user types to the product suggester
UserQueries == { <<"h","e","a","d","a","c","h","e">>, <<"h","i">> }

\* ProductSuggester.product_database, each product by its name
product_database ==
       (s_pain_relief :> << "PainAway Extra Strength", "Migraine Relief Caplets" >>)
    @@ (s_cold_flu :> << "Cold & Flu Maximum Strength" >>)
    @@ (s_allergy :> << "Allergy Relief Non-Drowsy" >>)
    @@ (s_digestive_health :> << "Stomach Soother Antacid" >>)
    @@ (s_first_aid :> << "Advanced Healing Bandages" >>)

\* the categories and severities the prompt of analyze_user_query offers
documented_categories == DOMAIN product_database \cup {s_unknown}

documented_severities ==
    { <<"m","i","l","d">>, <<"m","o","d","e","r","a","t","e">>, <<"s","e","v","e","r","e">> }

\* the dict _parse_analysis_response starts from
analysis_init ==
    [category |-> s_unknown, severity |-> s_unknown,
     symptoms |-> <<>>, potential_products |-> <<>>]

\* the except branch of analyze_user_query without its last key
analyze_user_query_except_short ==
    [category |-> s_unknown, severity |-> s_unknown, symptoms |-> <<>>]

\* the dict analyze_user_query returns from its except branch
analyze_user_query_except ==
    [category |-> s_unknown, severity |-> s_unknown,
     symptoms |-> <<>>, potential_products |-> <<>>]

\* the list comprehension without strip() on the elements
split_list_untrimmed(text) == Split(text, ",")

\* [s.strip() for s in text.split(",")]
split_list(text) ==
    LET parts == Split(text, ",")
    IN  [i \in 1..Len(parts) |-> Strip(parts[i])]

\* the loop body of _parse_analysis_response
parse_analysis_line(a, line) ==
    IF StartsWith(line, s_CATEGORY)
    THEN [a EXCEPT !.category = Lower(Strip(AfterFirst(line, ":")))]
    ELSE IF StartsWith(line, s_SEVERITY)
    THEN [a EXCEPT !.severity = Lower(Strip(AfterFirst(line, ":")))]
    ELSE IF StartsWith(line, s_SYMPTOMS)
    THEN [a EXCEPT !.symptoms = split_list(Strip(AfterFirst(line, ":")))]
    ELSE IF StartsWith(line, s_POTENTIAL_PRODUCTS)
    THEN [a EXCEPT !.potential_products = split_list(Strip(AfterFirst(line, ":")))]
    ELSE a

RECURSIVE parse_analysis_lines(_, _)
parse_analysis_lines(lines, a) ==
    IF lines = <<>> THEN a
    ELSE parse_analysis_lines(Tail(lines), parse_analysis_line(a, Head(lines)))

\* ProductSuggester._parse_analysis_response
_parse_analysis_response(response_text) ==
    parse_analysis_lines(Split(Strip(response_text), "\n"), analysis_init)

\* the prompt of analyze_user_query
analysis_prompt(user_input) ==
    [site |-> "analyze_user_query", user_input |-> user_input]

\* the prompt of generate_recommendation: the general one when the category
\* has no products, the one listing the category's products otherwise
recommendation_prompt(user_input, a) ==
    LET relevant_products == IF a.category \in DOMAIN product_database
                             THEN product_database[a.category] ELSE <<>>
    IN  IF relevant_products = <<>>
        THEN [site |-> "generate_recommendation", user_input |-> user_input,
              symptoms |-> Join(a.symptoms, <<",", " ">>),
              severity |-> a.severity,
              category |-> <<>>, products |-> <<>>]
        ELSE [site |-> "generate_recommendation", user_input |-> user_input,
              symptoms |-> Join(a.symptoms, <<",", " ">>),
              severity |-> a.severity,
              category |-> a.category, products |-> relevant_products]

\* generate_recommendation: response.text
generated_recommendation(text) == [kind |-> "generated", text |-> text]

\* generate_recommendation: the return of the except branch
recommendation_apology(e) ==
    [kind |-> "apology",
     text |-> "I apologize, I'm having trouble generating a recommendation right now. Error: ",
     error |-> e]

\* textwrap.fill(text, width), kept as the call
textwrap_fill(text, width) == [fill |-> text, width |-> width]

\* ProductSuggester.format_recommendation
format_recommendation(recommendation, a) ==
    [category_header |-> Title(Replace(a.category, "_", " ")),
     severity |-> Title(a.severity),
     symptoms |-> IF a.symptoms # <<>> THEN Join(a.symptoms, <<",", " ">>)
                  ELSE s_not_specified,
     recommendation |-> textwrap_fill(recommendation, 70)]

(***************************************************************************)
(* The state machine.                                                      *)
(***************************************************************************)
\* one generate_content call as the operation's record of it: where it was
\* made, the prompt, the exception it raised ("none" when it returned) and
\* the text it returned
GenCall(site, prompt, error, response) ==
    [site |-> site, prompt |-> prompt, ok |-> error = "none", error |-> error,
     response |-> response]

Programs == {"country", "mood", "product"}

Init ==
    /\ prog \in Programs
    /\ op = "none"
    /\ pc = "idle"
    /\ input = <<>>
    /\ validation = None
    /\ tool_results = None
    /\ analysis = None
    /\ mood = <<>>
    /\ gen_calls = <<>>
    /\ result = None
    /\ raised = FALSE
    /\ mode = "library"
    /\ api_key = [set |-> TRUE, value |-> <<"k">>]
    /\ output = "none"
    /\ config_reports = 0

\* a direct call of one tool's execute
ToolExecute ==
    /\ prog = "country"
    /\ pc = "idle"
    /\ \E tool \in Tools, country_name \in CountryNames :
        /\ op' = tool
        /\ input' = country_name
        /\ result' = tool_execute(tool, country_name)
    /\ pc' = "done"
    /\ UNCHANGED <<prog, validation, tool_results, analysis, mood, gen_calls, raised>>
    /\ UNCHANGED session

\* a direct call of _create_fallback_report
CreateFallbackReport ==
    /\ prog = "country"
    /\ pc = "idle"
    /\ \E results \in FallbackInputs :
        /\ tool_results' = results
        /\ IF fallback_keys_present(results)
           THEN /\ result' = _create_fallback_report(results)
                /\ raised' = raised
           ELSE /\ result' = result
                /\ raised' = TRUE
    /\ op' = "_create_fallback_report"
    /\ pc' = "done"
    /\ UNCHANGED <<prog, input, validation, analysis, mood, gen_calls>>
    /\ UNCHANGED session

\* process_country_query is entered
ProcessCountryQuery ==
    /\ prog = "country"
    /\ pc = "idle"
    /\ \E country_name \in CountryNames : input' = country_name
    /\ op' = "process_country_query"
    /\ pc' = "validating"
    /\ UNCHANGED <<prog, validation, tool_results, analysis, mood, gen_calls, result, raised>>
    /\ UNCHANGED session

\* process_country_query: validation and the early return
Validate ==
    /\ op = "process_country_query"
    /\ pc = "validating"
    /\ validation' = validate_country(input)
    /\ IF ~validation'.is_valid
       THEN /\ result' = validation_error(input)
            /\ pc' = "done"
       ELSE /\ result' = result
            /\ pc' = "executing_tools"
    /\ UNCHANGED <<prog, op, input, tool_results, analysis, mood, gen_calls, raised>>
    /\ UNCHANGED session

\* process_country_query: the three tools
ExecuteAllTools ==
    /\ op = "process_country_query"
    /\ pc = "executing_tools"
    /\ tool_results' = execute_all_tools(input)
    /\ pc' = "generating"
    /\ UNCHANGED <<prog, op, input, validation, analysis, mood, gen_calls, result, raised>>
    /\ UNCHANGED session

\* generate_complete_report: the provider answers
GenerateReportOk ==
    /\ op = "process_country_query"
    /\ pc = "generating"
    /\ \E text \in GeneratedTexts :
        /\ result' = query_success(input, tool_results, generated_report(text),
                                   validation)
        /\ gen_calls' = Append(gen_calls,
              GenCall("generate_complete_report", report_prompt(tool_results),
                      "none", text))
    /\ pc' = "done"
    /\ UNCHANGED <<prog, op, input, validation, tool_results, analysis, mood, raised>>
    /\ UNCHANGED session

\* generate_complete_report: the provider call raises
GenerateReportFail ==
    /\ op = "process_country_query"
    /\ pc = "generating"
    /\ \E e \in GenerationErrors :
        gen_calls' = Append(gen_calls,
            GenCall("generate_complete_report", report_prompt(tool_results), e, <<>>))
    /\ IF "generate_complete_report" \in GuardedSites
       THEN /\ result' = query_success(input, tool_results,
                            _create_fallback_report(tool_results), validation)
            /\ raised' = raised
       ELSE /\ result' = result
            /\ raised' = TRUE
    /\ pc' = "done"
    /\ UNCHANGED <<prog, op, input, validation, tool_results, analysis, mood>>
    /\ UNCHANGED session

\* the moods a direct caller passes to suggest_activity
SuggestMoods == activity_moods \cup {s_happy, s_neutral}

\* MoodHandoffSystem.run is entered
Run ==
    /\ prog = "mood"
    /\ pc = "idle"
    /\ \E user_message \in UserMessages : input' = user_message
    /\ op' = "run"
    /\ pc' = "analyzing"
    /\ UNCHANGED <<prog, validation, tool_results, analysis, mood, gen_calls,
                   result, raised>>
    /\ UNCHANGED session

\* analyze_mood: the provider answers and the answer is parsed
AnalyzeMoodOk ==
    /\ op = "run"
    /\ pc = "analyzing"
    /\ \E text \in MoodResponses :
        /\ analysis' = _parse_mood_response(text)
        /\ gen_calls' = Append(gen_calls,
              GenCall("analyze_mood", mood_prompt(input), "none", text))
    /\ pc' = "handoff"
    /\ UNCHANGED <<prog, op, input, validation, tool_results, mood, result, raised>>
    /\ UNCHANGED session

\* analyze_mood: the provider call raises
AnalyzeMoodFail ==
    /\ op = "run"
    /\ pc = "analyzing"
    /\ \E e \in GenerationErrors :
        gen_calls' = Append(gen_calls,
            GenCall("analyze_mood", mood_prompt(input), e, <<>>))
    /\ IF "analyze_mood" \in GuardedSites
       THEN /\ analysis' = analyze_mood_except
            /\ pc' = "handoff"
            /\ raised' = raised
       ELSE /\ analysis' = analysis
            /\ pc' = "done"
            /\ raised' = TRUE
    /\ UNCHANGED <<prog, op, input, validation, tool_results, mood, result>>
    /\ UNCHANGED session

\* run: the result dict and the decision to hand off to the suggester
Handoff ==
    /\ op = "run"
    /\ pc = "handoff"
    /\ mood' = analysis.mood
    /\ result' = run_result(input, analysis, None)
    /\ pc' = IF mood' \in handoff_moods THEN "suggesting" ELSE "done"
    /\ UNCHANGED <<prog, op, input, validation, tool_results, analysis,
                   gen_calls, raised>>
    /\ UNCHANGED session

\* a direct call of ActivitySuggesterAgent.suggest_activity
SuggestActivity ==
    /\ prog = "mood"
    /\ pc = "idle"
    /\ \E m \in SuggestMoods, user_message \in UserMessages :
        /\ mood' = m
        /\ input' = user_message
    /\ op' = "suggest_activity"
    /\ pc' = "suggesting"
    /\ UNCHANGED <<prog, validation, tool_results, analysis, gen_calls,
                   result, raised>>
    /\ UNCHANGED session

\* what the caller of suggest_activity holds once it returned s
suggestion_result(s) ==
    IF op = "run" THEN run_result(input, analysis, s) ELSE s

\* suggest_activity: the early return for a mood outside the four
SuggestPositive ==
    /\ pc = "suggesting"
    /\ mood \notin activity_moods
    /\ result' = suggestion_result(positive_message(mood))
    /\ pc' = "done"
    /\ UNCHANGED <<prog, op, input, validation, tool_results, analysis, mood,
                   gen_calls, raised>>
    /\ UNCHANGED session

\* suggest_activity: the provider answers
SuggestActivityOk ==
    /\ pc = "suggesting"
    /\ mood \in activity_moods
    /\ \E text \in GeneratedTexts :
        /\ result' = suggestion_result(_parse_activity_response(text))
        /\ gen_calls' = Append(gen_calls,
              GenCall("suggest_activity", activity_prompt(mood, input), "none", text))
    /\ pc' = "done"
    /\ UNCHANGED <<prog, op, input, validation, tool_results, analysis, mood, raised>>
    /\ UNCHANGED session

\* suggest_activity: the provider call raises
SuggestActivityFail ==
    /\ pc = "suggesting"
    /\ mood \in activity_moods
    /\ \E e \in GenerationErrors :
        gen_calls' = Append(gen_calls,
            GenCall("suggest_activity", activity_prompt(mood, input), e, <<>>))
    /\ IF "suggest_activity" \in GuardedSites
       THEN /\ \E activity \in fallback_activities(mood) :
                 result' = suggestion_result(fallback_suggestion(activity, mood))
            /\ raised' = raised
       ELSE /\ result' = result
            /\ raised' = TRUE
    /\ pc' = "done"
    /\ UNCHANGED <<prog, op, input, validation, tool_results, analysis, mood>>
    /\ UNCHANGED session

\* ProductSuggester.process_query is entered
ProcessQuery ==
    /\ prog = "product"
    /\ pc = "idle"
    /\ \E user_input \in UserQueries : input' = user_input
    /\ op' = "process_query"
    /\ pc' = "analyzing"
    /\ UNCHANGED <<prog, validation, tool_results, analysis, mood, gen_calls,
                   result, raised>>
    /\ UNCHANGED session

\* analyze_user_query: the provider answers and the answer is parsed
AnalyzeQueryOk ==
    /\ op = "process_query"
    /\ pc = "analyzing"
    /\ \E text \in ProductResponses :
        /\ analysis' = _parse_analysis_response(text)
        /\ gen_calls' = Append(gen_calls,
              GenCall("analyze_user_query", analysis_prompt(input), "none", text))
    /\ pc' = "recommending"
    /\ UNCHANGED <<prog, op, input, validation, tool_results, mood, result, raised>>
    /\ UNCHANGED session

\* analyze_user_query: the provider call raises
AnalyzeQueryFail ==
    /\ op = "process_query"
    /\ pc = "analyzing"
    /\ \E e \in GenerationErrors :
        gen_calls' = Append(gen_calls,
            GenCall("analyze_user_query", analysis_prompt(input), e, <<>>))
    /\ IF "analyze_user_query" \in GuardedSites
       THEN /\ analysis' = analyze_user_query_except
            /\ pc' = "recommending"
            /\ raised' = raised
       ELSE /\ analysis' = analysis
            /\ pc' = "done"
            /\ raised' = TRUE
    /\ UNCHANGED <<prog, op, input, validation, tool_results, mood, result>>
    /\ UNCHANGED session

\* generate_recommendation answers, format_recommendation lays it out
RecommendOk ==
    /\ op = "process_query"
    /\ pc = "recommending"
    /\ \E text \in GeneratedTexts :
        /\ result' = format_recommendation(generated_recommendation(text), analysis)
        /\ gen_calls' = Append(gen_calls,
              GenCall("generate_recommendation",
                      recommendation_prompt(input, analysis), "none", text))
    /\ pc' = "done"
    /\ UNCHANGED <<prog, op, input, validation, tool_results, analysis, mood, raised>>
    /\ UNCHANGED session

\* generate_recommendation: the provider call raises
RecommendFail ==
    /\ op = "process_query"
    /\ pc = "recommending"
    /\ \E e \in GenerationErrors :
        /\ gen_calls' = Append(gen_calls,
              GenCall("generate_recommendation",
                      recommendation_prompt(input, analysis), e, <<>>))
        /\ IF "generate_recommendation" \in GuardedSites
           THEN /\ result' = format_recommendation(recommendation_apology(e), analysis)
                /\ raised' = raised
           ELSE /\ result' = result
                /\ raised' = TRUE
    /\ pc' = "done"
    /\ UNCHANGED <<prog, op, input, validation, tool_results, analysis, mood>>
    /\ UNCHANGED session

(***************************************************************************)
(* __main__ and run_interactive.                                           *)
(***************************************************************************)
\* what os.getenv("GEMINI_API_KEY") may return: None, "" or a key
ApiKeys ==
    { [set |-> FALSE, value |-> <<>>],
      [set |-> TRUE, value |-> <<>>],
      [set |-> TRUE, value |-> <<"k">>] }

\* __init__ without the test of the key
api_key_missing_unchecked(key) == FALSE

\* __init__: not self.api_key
api_key_missing(key) == ~key.set \/ key.value = <<>>

s_quit == <<"q","u","i","t">>

s_exit == <<"e","x","i","t">>

s_bye == <<"b","y","e">>

s_stop == <<"s","t","o","p">>

s_goodbye == <<"g","o","o","d","b","y","e">>

\* run_interactive: the list user_input.lower() is looked up in
exit_tokens(program) ==
    CASE program = "country" -> {s_quit, s_exit, s_bye, s_stop}
      [] program = "mood" -> {s_quit, s_exit, s_bye}
      [] program = "product" -> {s_quit, s_exit, s_bye, s_goodbye}

\* what the user types at the prompt
ConsoleLines ==
    { s_quit, <<"E","X","I","T">>, <<" ","B","y","e"," ">>, s_stop,
      <<"G","o","o","d","b","y","e">>, <<>>, <<" ">>, <<"u","k">> }

\* run_interactive: the method that processes a line
query_op(program) ==
    CASE program = "country" -> "process_country_query"
      [] program = "mood" -> "run"
      [] program = "product" -> "process_query"

\* where that method starts
query_entry(program) == IF program = "country" THEN "validating" ELSE "analyzing"

\* the except clauses of run_interactive when each of them leaves the loop
loop_handler_breaking(exception) ==
    [message |-> IF exception = "KeyboardInterrupt" THEN "session_ended" ELSE "error",
     then |-> "break"]

\* the except clauses of run_interactive: KeyboardInterrupt says the session
\* ended and breaks; any other Exception is reported and the loop goes on
loop_handler(exception) ==
    [message |-> IF exception = "KeyboardInterrupt" THEN "session_ended" ELSE "error",
     then |-> IF exception = "KeyboardInterrupt" THEN "break" ELSE "continue"]

\* the exception reaches the try of the loop
LoopCatches(exception) ==
    /\ output' = loop_handler(exception).message
    /\ pc' = IF loop_handler(exception).then = "break" THEN "exited" ELSE "prompt"

\* the locals of the operation are gone
OperationOver ==
    /\ op' = "none"
    /\ input' = <<>>
    /\ validation' = None
    /\ tool_results' = None
    /\ analysis' = None
    /\ mood' = <<>>
    /\ gen_calls' = <<>>
    /\ result' = None
    /\ raised' = FALSE

\* __main__: the constructor; without a key it raises ValueError, which
\* __main__ reports as a configuration error before the process ends
Startup ==
    /\ mode = "main"
    /\ pc = "start"
    /\ IF api_key_missing(api_key)
       THEN /\ output' = "config_error"
            /\ config_reports' = config_reports + 1
            /\ pc' = "exited"
       ELSE /\ output' = "banner"
            /\ config_reports' = config_reports
            /\ pc' = "prompt"
    /\ UNCHANGED <<prog, op, input, validation, tool_results, analysis, mood,
                   gen_calls, result, raised, mode, api_key>>

\* run_interactive: input() prints the prompt and reads one line, which is
\* stripped and tested; an exit token ends the loop, an empty line asks
\* again, any other line is processed
ReadInput ==
    /\ mode = "main"
    /\ pc = "prompt"
    /\ \E line \in ConsoleLines :
        LET user_input == Strip(line)
        IN  IF Lower(user_input) \in exit_tokens(prog)
            THEN /\ output' = "goodbye"
                 /\ pc' = "exited"
                 /\ UNCHANGED <<op, input>>
            ELSE IF user_input = <<>>
            THEN /\ output' = "reprompt"
                 /\ pc' = "prompt"
                 /\ UNCHANGED <<op, input>>
            ELSE /\ op' = query_op(prog)
                 /\ input' = user_input
                 /\ pc' = query_entry(prog)
                 /\ output' = "prompt"
    /\ UNCHANGED <<prog, validation, tool_results, analysis, mood, gen_calls,
                   result, raised, mode, api_key, config_reports>>

\* run_interactive: input() raises EOFError
InputEOF ==
    /\ mode = "main"
    /\ pc = "prompt"
    /\ LoopCatches("EOFError")
    /\ OperationOver
    /\ UNCHANGED <<prog, mode, api_key, config_reports>>

\* run_interactive: an exception that no try of the method handles is
\* raised while the line is processed or its result printed
QueryFault ==
    /\ mode = "main"
    /\ op # "none"
    /\ pc \notin {"start", "prompt", "exited"}
    /\ LoopCatches("Exception")
    /\ OperationOver
    /\ UNCHANGED <<prog, mode, api_key, config_reports>>

\* run_interactive: the user presses Ctrl-C at the prompt or during a query
Interrupt ==
    /\ mode = "main"
    /\ pc \notin {"start", "exited"}
    /\ LoopCatches("KeyboardInterrupt")
    /\ OperationOver
    /\ UNCHANGED <<prog, mode, api_key, config_reports>>

\* the operation has returned; the next one starts from scratch. Under
\* run_interactive the result is printed and the prompt comes back, or the
\* exception that left the operation reaches the try of the loop
Return ==
    /\ pc = "done"
    /\ OperationOver
    /\ IF mode = "main"
       THEN IF raised THEN LoopCatches("Exception")
            ELSE /\ output' = "result"
                 /\ pc' = "prompt"
       ELSE /\ output' = output
            /\ pc' = "idle"
    /\ UNCHANGED <<prog, mode, api_key, config_reports>>

Next ==
    \/ ToolExecute
    \/ CreateFallbackReport
    \/ ProcessCountryQuery
    \/ Validate
    \/ ExecuteAllTools
    \/ GenerateReportOk
    \/ GenerateReportFail
    \/ Run
    \/ AnalyzeMoodOk
    \/ AnalyzeMoodFail
    \/ Handoff
    \/ SuggestActivity
    \/ SuggestPositive
    \/ SuggestActivityOk
    \/ SuggestActivityFail
    \/ ProcessQuery
    \/ AnalyzeQueryOk
    \/ AnalyzeQueryFail
    \/ RecommendOk
    \/ RecommendFail
    \/ Return

Spec == Init /\ [][Next]_vars

\* the program run as __main__
SessionInit ==
    /\ prog \in Programs
    /\ op = "none"
    /\ pc = "start"
    /\ input = <<>>
    /\ validation = None
    /\ tool_results = None
    /\ analysis = None
    /\ mood = <<>>
    /\ gen_calls = <<>>
    /\ result = None
    /\ raised = FALSE
    /\ mode = "main"
    /\ api_key \in ApiKeys
    /\ output = "none"
    /\ config_reports = 0

\* run hands off only the moods for which suggest_activity does not take
\* its early return, so SuggestPositive is no step of a session
SessionNext ==
    \/ Startup
    \/ ReadInput
    \/ InputEOF
    \/ QueryFault
    \/ Interrupt
    \/ Validate
    \/ ExecuteAllTools
    \/ GenerateReportOk
    \/ GenerateReportFail
    \/ AnalyzeMoodOk
    \/ AnalyzeMoodFail
    \/ Handoff
    \/ SuggestActivityOk
    \/ SuggestActivityFail
    \/ AnalyzeQueryOk
    \/ AnalyzeQueryFail
    \/ RecommendOk
    \/ RecommendFail
    \/ Return

SessionSpec == SessionInit /\ [][SessionNext]_vars

(***************************************************************************)
(* Properties.                                                             *)
(***************************************************************************)
\* the operations that serve one user query
QueryOps == {"process_country_query", "run", "process_query"}

\* a lookup key: trimmed and lower-cased
Normalized(name) == Lower(Strip(name))

\* the keys of one tool's table
ToolKeys(tool) ==
    CASE tool = "capital" -> DOMAIN country_capitals
      [] tool = "language" -> DOMAIN country_languages
      [] tool = "population" -> DOMAIN country_populations

AllKeys == DOMAIN country_capitals \cup DOMAIN country_languages
              \cup DOMAIN country_populations

\* the generate_content calls of this operation that raised
FailedCalls == {i \in 1..Len(gen_calls) : ~gen_calls[i].ok}

\* the first generate_content call of this operation was made at site and
\* its outcome has been turned into the analysis
Analyzed(site) ==
    /\ gen_calls # <<>>
    /\ gen_calls[1].site = site
    /\ analysis # None

\* the lines the parsers iterate over
LinesOf(text) == Split(Strip(text), "\n")

\* some line of text starts with label, compared as the code compares
HasLine(text, label) ==
    LET lines == LinesOf(text)
    IN  \E i \in 1..Len(lines) : StartsWith(lines[i], label)

\* C1: for inputs whose normalized form is a key, a tool's execute returns
\* the very record it returns for the normalized form of the input: two
\* inputs equal after trimming and lower-casing give identical results.
C1_LookupInsensitive ==
    (op \in Tools /\ pc = "done" /\ Normalized(input) \in ToolKeys(op))
        => result = tool_execute(op, Normalized(input))

\* C2: for an input whose normalized form is not a key of the tool's table,
\* execute returns an error record with a message and raises nothing.
C2_AbsentKeyNotFound ==
    (op \in Tools /\ pc = "done" /\ Normalized(input) \notin ToolKeys(op))
        => /\ ~raised
           /\ DOMAIN result = {"status", "message"}
           /\ result.status = "error"

\* a proper prefix of a key was looked up and was not found
C2_Witness ==
    /\ op = "capital"
    /\ pc = "done"
    /\ input = <<"u">>
    /\ result.status = "error"

\* C3: a query for a country that is in none of the three tables makes no
\* provider call, and it returns a validation error whose message carries
\* the input as typed.
C3_UnknownCountry ==
    (op = "process_country_query" /\ Normalized(input) \notin AllKeys)
        => /\ gen_calls = <<>>
           /\ pc \in {"validating", "done"}
           /\ pc = "done" =>
                /\ ~raised
                /\ "status" \in DOMAIN result
                /\ result.status = "error"
                /\ result.message.country_name = input

\* the query for "Narnia" has returned its validation error
C3_Witness ==
    /\ op = "process_country_query"
    /\ pc = "done"
    /\ input = <<"N","a","r","n","i","a">>
    /\ result.status = "error"
    /\ gen_calls = <<>>

\* the fallback report written down from the three tables
ExpectedFallbackReport(name) ==
    LET key == Normalized(name)
        Line(label, table) ==
            IF key \in DOMAIN table THEN <<label, table[key]>>
            ELSE <<label, "Information not available">>
    IN  [kind |-> "fallback",
         country |-> Title(name),
         capital |-> Line("Capital: ", country_capitals),
         language |-> Line("Language: ", country_languages),
         population |-> Line("Population: ", country_populations)]

\* C4: when the provider call of a valid country's query fails, the query
\* returns a success result whose report is the fallback report built from
\* the stored capital, language and population of that country.
C4_FallbackReport ==
    (op = "process_country_query" /\ pc = "done" /\ FailedCalls # {})
        => /\ "status" \in DOMAIN result
           /\ result.status = "success"
           /\ Normalized(input) \in AllKeys
           /\ result.report = ExpectedFallbackReport(input)

\* the query for "Germany" has returned after a failed provider call
C4_Witness ==
    /\ op = "process_country_query"
    /\ pc = "done"
    /\ input = <<"G","e","r","m","a","n","y">>
    /\ FailedCalls # {}
    /\ result.report.capital = <<"Capital: ", "Berlin">>
    /\ result.report.population = <<"Population: ", "83 million">>

\* the result shows the fallback of the failed call c
FallbackTaken(c) ==
    CASE c.site = "generate_complete_report" ->
            /\ "report" \in DOMAIN result
            /\ result.report.kind = "fallback"
      [] c.site = "analyze_mood" ->
            /\ "mood_analysis" \in DOMAIN result
            /\ result.mood_analysis = [mood |-> s_neutral, confidence |-> s_medium]
      [] c.site = "suggest_activity" ->
            /\ "activity_suggestion" \in DOMAIN result
            /\ "kind" \in DOMAIN result.activity_suggestion
            /\ result.activity_suggestion.kind = "fallback"
      [] c.site = "analyze_user_query" ->
            /\ "category_header" \in DOMAIN result
            /\ result.category_header = Title(s_unknown)
            /\ result.symptoms = s_not_specified
      [] c.site = "generate_recommendation" ->
            /\ "recommendation" \in DOMAIN result
            /\ result.recommendation.fill.kind = "apology"
            /\ result.recommendation.fill.error = c.error

\* C5: in the three programs a failed provider call never leaves the query
\* operation as an exception; the query ends with a result, and the result
\* holds the fallback of every call that failed.
C5_FailureRecovered ==
    op \in QueryOps
        => /\ ~raised
           /\ (pc = "done" /\ FailedCalls # {}) =>
                /\ result # None
                /\ \A i \in FailedCalls : FallbackTaken(gen_calls[i])

\* a product query has returned although both of its provider calls failed
C5_Witness ==
    /\ op = "process_query"
    /\ pc = "done"
    /\ FailedCalls = {1, 2}
    /\ result # None
    /\ ~raised

\* C6 as stated: a query calls the provider at most once, and exactly once
\* when it passes validation.
C6_OneCallPerQuery ==
    op \in QueryOps
        => /\ Len(gen_calls) <= 1
           /\ (pc = "done" /\ (op = "process_country_query" => validation.is_valid))
                => Len(gen_calls) = 1

\* the moods the mood analyzer documents as needing an activity
InterventionMoods == {s_sad, s_stressed, s_anxious, s_angry}

\* C6 amended: the country query calls the provider once when the country
\* is valid and never otherwise; the mood query calls it once for the
\* analysis and a second time exactly when the detected mood is sad,
\* stressed, anxious or angry; the product query calls it twice.
C6_CallsPerQuery ==
    /\ op = "process_country_query" =>
        /\ Len(gen_calls) <= 1
        /\ pc = "done" => Len(gen_calls) = IF validation.is_valid THEN 1 ELSE 0
    /\ op = "run" =>
        /\ Len(gen_calls) <= 2
        /\ (pc = "done" /\ ~raised) =>
              Len(gen_calls) = IF analysis.mood \in InterventionMoods THEN 2 ELSE 1
    /\ op = "process_query" =>
        /\ Len(gen_calls) <= 2
        /\ (pc = "done" /\ ~raised) => Len(gen_calls) = 2

\* a mood query that detected "sad" has returned after two provider calls
C6_Witness ==
    /\ op = "run"
    /\ pc = "done"
    /\ analysis.mood = s_sad
    /\ Len(gen_calls) = 2

\* C7 as stated: once a provider call has failed within a query, the query
\* makes no further provider call.
C7_NoCallAfterFailure ==
    op \in QueryOps => \A i \in FailedCalls : i = Len(gen_calls)

\* C7 amended: no provider call is repeated within a query, and a failed
\* call is the last call of its query except for the failed analysis call
\* of the product query, which is followed by the one recommendation call.
C7_NoRetry ==
    op \in QueryOps
        => /\ \A i, j \in 1..Len(gen_calls) :
                gen_calls[i].site = gen_calls[j].site => i = j
           /\ \A i \in FailedCalls :
                \/ i = Len(gen_calls)
                \/ /\ op = "process_query"
                   /\ gen_calls[i].site = "analyze_user_query"
                   /\ Len(gen_calls) = i + 1
                   /\ gen_calls[i + 1].site = "generate_recommendation"
           /\ (pc = "done" /\ FailedCalls # {}) => result # None

\* a mood query whose analysis call failed has returned without another call
C7_Witness ==
    /\ op = "run"
    /\ pc = "done"
    /\ FailedCalls = {1}
    /\ Len(gen_calls) = 1
    /\ result.activity_suggestion = None

\* the values written after a label and one blank
LabelValues == {Tail(r) : r \in MoodLineRests \cup ProductLineRests}

\* the two-line response "<l1> <v>\n<l2> <w>"
LabeledPair(l1, v, l2, w) == l1 \o <<" ">> \o v \o <<"\n">> \o l2 \o <<" ">> \o w

\* C8: the response "MOOD: <v>\nCONFIDENCE: <w>" is parsed to the mood v
\* and the confidence w, each trimmed and lower-cased; likewise CATEGORY
\* and SEVERITY in the product parser.
C8_ParseLabeledPair ==
    \A v, w \in LabelValues :
        /\ ( /\ Analyzed("analyze_mood")
             /\ gen_calls[1].ok
             /\ gen_calls[1].response = LabeledPair(s_MOOD, v, s_CONFIDENCE, w) )
           => analysis = [mood |-> Lower(Strip(v)), confidence |-> Lower(Strip(w))]
        /\ ( /\ Analyzed("analyze_user_query")
             /\ gen_calls[1].ok
             /\ gen_calls[1].response = LabeledPair(s_CATEGORY, v, s_SEVERITY, w) )
           => /\ analysis.category = Lower(Strip(v))
              /\ analysis.severity = Lower(Strip(w))

\* "MOOD: Happy\nCONFIDENCE: High" has been parsed to happy and high
C8_Witness ==
    /\ Analyzed("analyze_mood")
    /\ gen_calls[1].ok
    /\ gen_calls[1].response =
          LabeledPair(s_MOOD, <<"H","a","p","p","y">>,
                      s_CONFIDENCE, <<"H","i","g","h">>)
    /\ analysis = [mood |-> s_happy, confidence |-> <<"h","i","g","h">>]

\* C9: a one-line response that starts with a field's label in any letter
\* case sets that field to the rest of the line, trimmed and lower-cased.
C9_LabelAnyCase ==
    /\ ( /\ Analyzed("analyze_mood")
         /\ gen_calls[1].ok
         /\ Len(LinesOf(gen_calls[1].response)) = 1
         /\ StartsWith(Lower(gen_calls[1].response), Lower(s_MOOD)) )
       => analysis.mood = Lower(Strip(AfterFirst(gen_calls[1].response, ":")))
    /\ ( /\ Analyzed("analyze_user_query")
         /\ gen_calls[1].ok
         /\ Len(LinesOf(gen_calls[1].response)) = 1
         /\ StartsWith(Lower(gen_calls[1].response), Lower(s_CATEGORY)) )
       => analysis.category = Lower(Strip(AfterFirst(gen_calls[1].response, ":")))

\* C10: the analysis always has every expected field; a field no line of
\* the response sets holds its default (neutral, medium; unknown, unknown,
\* no symptoms, no products), and a failed call gives exactly the defaults.
C10_DefaultsPresent ==
    /\ Analyzed("analyze_mood") =>
        /\ DOMAIN analysis = {"mood", "confidence"}
        /\ LET c == gen_calls[1]
           IN  /\ (~c.ok \/ ~HasLine(c.response, s_MOOD))
                     => analysis.mood = s_neutral
               /\ (~c.ok \/ ~HasLine(c.response, s_CONFIDENCE))
                     => analysis.confidence = s_medium
    /\ Analyzed("analyze_user_query") =>
        /\ DOMAIN analysis =
              {"category", "severity", "symptoms", "potential_products"}
        /\ LET c == gen_calls[1]
           IN  /\ (~c.ok \/ ~HasLine(c.response, s_CATEGORY))
                     => analysis.category = s_unknown
               /\ (~c.ok \/ ~HasLine(c.response, s_SEVERITY))
                     => analysis.severity = s_unknown
               /\ (~c.ok \/ ~HasLine(c.response, s_SYMPTOMS))
                     => analysis.symptoms = <<>>
               /\ (~c.ok \/ ~HasLine(c.response, s_POTENTIAL_PRODUCTS))
                     => analysis.potential_products = <<>>

\* a response with a CATEGORY line only has been parsed: the three other
\* fields hold their defaults
C10_Witness ==
    /\ Analyzed("analyze_user_query")
    /\ gen_calls[1].ok
    /\ HasLine(gen_calls[1].response, s_CATEGORY)
    /\ ~HasLine(gen_calls[1].response, s_SEVERITY)
    /\ analysis.category # s_unknown
    /\ analysis.severity = s_unknown
    /\ analysis.symptoms = <<>>
    /\ analysis.potential_products = <<>>

\* the last of the parser's lines that starts with label
LastLine(text, label) ==
    LET lines == LinesOf(text)
        k == CHOOSE i \in 1..Len(lines) :
                /\ StartsWith(lines[i], label)
                /\ \A j \in (i + 1)..Len(lines) : ~StartsWith(lines[j], label)
    IN  lines[k]

\* what follows the label on that line
AfterLabel(text, label) ==
    LET line == LastLine(text, label)
    IN  SubSeq(line, Len(label) + 1, Len(line))

\* s neither starts nor ends with white space
NoOuterSpace(s) == s = <<>> \/ (~IsSpace(s[1]) /\ ~IsSpace(s[Len(s)]))

\* the text split on "," with every piece trimmed
SplitTrimmed(text) ==
    LET pieces == Split(text, ",") IN [i \in 1..Len(pieces) |-> Strip(pieces[i])]

\* C11: symptoms and potential_products are the pieces of the text after
\* the label, split on "," and trimmed one by one, in order; no element
\* starts or ends with white space.
C11_ListFields ==
    (Analyzed("analyze_user_query") /\ gen_calls[1].ok) =>
        LET text == gen_calls[1].response
            Field(name, label) ==
                HasLine(text, label) =>
                    /\ name \in DOMAIN analysis
                    /\ analysis[name] = SplitTrimmed(AfterLabel(text, label))
                    /\ \A i \in 1..Len(analysis[name]) : NoOuterSpace(analysis[name][i])
        IN  /\ Field("symptoms", s_SYMPTOMS)
            /\ Field("potential_products", s_POTENTIAL_PRODUCTS)

\* "SYMPTOMS: a , b" has been parsed to the list a, b
C11_Witness ==
    /\ Analyzed("analyze_user_query")
    /\ gen_calls[1].ok
    /\ gen_calls[1].response = s_SYMPTOMS \o <<" ","a"," ",","," ","b">>
    /\ analysis.symptoms = << <<"a">>, <<"b">> >>


\* the labels the parser of a call site looks for
ParserLabels(site) ==
    IF site = "analyze_mood" THEN {s_MOOD, s_CONFIDENCE}
    ELSE {s_CATEGORY, s_SEVERITY, s_SYMPTOMS, s_POTENTIAL_PRODUCTS}

\* the parser of a call site applied to a response text
ParseResponse(site, text) ==
    IF site = "analyze_mood" THEN _parse_mood_response(text)
    ELSE _parse_analysis_response(text)

\* the lines of text that start with one of the labels, in order
LabeledLines(site, text) ==
    SelectSeq(LinesOf(text), LAMBDA l : \E label \in ParserLabels(site) : StartsWith(l, label))

\* no two of the lines start with the same label
DistinctFields(site, lines) ==
    \A i, j \in 1..Len(lines) :
        i < j => \A label \in ParserLabels(site) :
                    ~(StartsWith(lines[i], label) /\ StartsWith(lines[j], label))

\* the lines in the order p
Permuted(lines, p) == [i \in 1..Len(lines) |-> lines[p[i]]]

\* C12: the parsed result is the one of the response's labeled lines alone
\* (a line that starts with no expected label changes no field), and when
\* the labeled lines are of distinct fields it is the result of every
\* reordering of them.
C12_UnknownIgnoredAnyOrder ==
    \A site \in {"analyze_mood", "analyze_user_query"} :
        (Analyzed(site) /\ gen_calls[1].ok) =>
            LET labeled == LabeledLines(site, gen_calls[1].response)
            IN  /\ analysis = ParseResponse(site, Join(labeled, <<"\n">>))
                /\ DistinctFields(site, labeled) =>
                      \A p \in Permutations(1..Len(labeled)) :
                          analysis = ParseResponse(site, Join(Permuted(labeled, p), <<"\n">>))

\* "NOTE: High\nMOOD: Happy" has been parsed to the mood happy and the
\* default confidence
C12_Witness ==
    /\ Analyzed("analyze_mood")
    /\ gen_calls[1].ok
    /\ gen_calls[1].response =
          <<"N","O","T","E",":"," ","H","i","g","h","\n">> \o s_MOOD \o <<" ","H","a","p","p","y">>
    /\ analysis = [mood |-> s_happy, confidence |-> s_medium]

\* the value the parser stores for a single-valued label
StoredValue(text, label) == Lower(Strip(AfterLabel(text, label)))

\* C13: a mood, category or severity that the prompt does not offer is
\* stored as it came, trimmed and lower-cased, and not replaced by the
\* default; the query goes on with it without raising and returns it.
C13_NoVocabulary ==
    /\ (Analyzed("analyze_mood") /\ gen_calls[1].ok) =>
          LET text == gen_calls[1].response
              v == StoredValue(text, s_MOOD)
          IN  (HasLine(text, s_MOOD) /\ v \notin documented_moods) =>
                  /\ analysis.mood = v
                  /\ ~raised
                  /\ (op = "run" /\ pc = "done") =>
                        /\ "mood_analysis" \in DOMAIN result
                        /\ result.mood_analysis.mood = v
    /\ (Analyzed("analyze_user_query") /\ gen_calls[1].ok) =>
          LET text == gen_calls[1].response
              c == StoredValue(text, s_CATEGORY)
              s == StoredValue(text, s_SEVERITY)
          IN  /\ (HasLine(text, s_CATEGORY) /\ c \notin documented_categories) =>
                    /\ analysis.category = c
                    /\ ~raised
                    /\ (op = "process_query" /\ pc = "done") =>
                          /\ "category_header" \in DOMAIN result
                          /\ result.category_header = Title(Replace(c, "_", " "))
              /\ (HasLine(text, s_SEVERITY) /\ s \notin documented_severities) =>
                    /\ analysis.severity = s
                    /\ ~raised
                    /\ (op = "process_query" /\ pc = "done") =>
                          /\ "severity" \in DOMAIN result
                          /\ result.severity = Title(s)

\* the response "MOOD: High" has gone through run, which returns the mood high
C13_Witness ==
    /\ op = "run"
    /\ pc = "done"
    /\ gen_calls # <<>>
    /\ gen_calls[1].ok
    /\ gen_calls[1].response = s_MOOD \o <<" ","H","i","g","h">>
    /\ "mood_analysis" \in DOMAIN result
    /\ result.mood_analysis.mood = <<"h","i","g","h">>
    /\ ~raised

\* the entry of the fallback report for one tool's field
FallbackEntry(results, f) ==
    <<CASE f = "capital" -> "Capital: "
        [] f = "language" -> "Language: "
        [] f = "population" -> "Population: ",
      IF results[f].status = "success" THEN results[f][f]
      ELSE "Information not available">>

\* C14: _create_fallback_report does not raise and, whichever of the three
\* tools succeeded, its report has one entry for each of capital, language
\* and population: the tool's value, or "Information not available".
C14_FallbackEveryCombination ==
    /\ (op = "_create_fallback_report" /\ pc = "done") =>
          /\ ~raised
          /\ \A f \in {"capital", "language", "population"} :
                /\ f \in DOMAIN result
                /\ result[f] = FallbackEntry(tool_results, f)
    /\ (op = "process_country_query" /\ pc = "done" /\ FailedCalls # {}) =>
          /\ ~raised
          /\ "report" \in DOMAIN result
          /\ \A f \in {"capital", "language", "population"} :
                /\ f \in DOMAIN result.report
                /\ result.report[f] = FallbackEntry(tool_results, f)

\* the fallback report of a capital that was found and a language and a
\* population that were not
C14_Witness ==
    /\ op = "_create_fallback_report"
    /\ pc = "done"
    /\ tool_results.capital.status = "success"
    /\ tool_results.language.status = "error"
    /\ tool_results.population.status = "error"
    /\ result.capital = <<"Capital: ", "Berlin">>
    /\ result.language = <<"Language: ", "Information not available">>
    /\ ~raised

\* the values the fallback of the failed call c can return for the input
\* and the failure at hand
FallbackOutputs(c) ==
    CASE c.site = "generate_complete_report" -> {_create_fallback_report(tool_results)}
      [] c.site = "analyze_mood" -> {analyze_mood_except}
      [] c.site = "suggest_activity" ->
            {fallback_suggestion(a, mood) : a \in fallback_activities(mood)}
      [] c.site = "analyze_user_query" -> {analyze_user_query_except}
      [] c.site = "generate_recommendation" -> {recommendation_apology(c.error)}

\* what the fallback of the failed call c did return
FallbackOutput(c) ==
    CASE c.site = "generate_complete_report" -> result.report
      [] c.site = "analyze_mood" -> analysis
      [] c.site = "suggest_activity" ->
            IF op = "run" THEN result.activity_suggestion ELSE result
      [] c.site = "analyze_user_query" -> analysis
      [] c.site = "generate_recommendation" -> result.recommendation.fill

\* C15: a fallback's output is a function of the query: whatever the
\* fallback can return for this input is what it returned, and the
\* fallback adds no provider call to the failed one.
C15_FallbackDeterministic ==
    (pc = "done" /\ ~raised) =>
        /\ \A i \in FailedCalls :
              \A o \in FallbackOutputs(gen_calls[i]) : FallbackOutput(gen_calls[i]) = o
        /\ \A i, j \in 1..Len(gen_calls) :
              i # j => gen_calls[i].site # gen_calls[j].site

\* C19: when run has returned, it holds an activity suggestion exactly when
\* the detected mood is sad, stressed, anxious or angry, and then the
\* suggester made the second provider call; for every other mood, also one
\* outside the prompt's list, activity_suggestion is None and the mood
\* analysis was the only provider call.
C19_HandoffIffNegative ==
    (op = "run" /\ pc = "done" /\ ~raised) =>
        /\ "activity_suggestion" \in DOMAIN result
        /\ (result.mood_analysis.mood \in InterventionMoods)
              <=> (result.activity_suggestion # None)
        /\ result.mood_analysis.mood \in InterventionMoods =>
              /\ Len(gen_calls) = 2
              /\ gen_calls[2].site = "suggest_activity"
        /\ result.mood_analysis.mood \notin InterventionMoods =>
              /\ Len(gen_calls) = 1
              /\ gen_calls[1].site = "analyze_mood"

\* run has returned for a message whose analysis failed: the mood is the
\* default neutral, nothing was suggested and no second call was made
C19_Witness ==
    /\ op = "run"
    /\ pc = "done"
    /\ FailedCalls = {1}
    /\ Len(gen_calls) = 1
    /\ "activity_suggestion" \in DOMAIN result
    /\ result.mood_analysis.mood = s_neutral
    /\ result.activity_suggestion = None

\* C20: the three tables have one key set; a direct execute of one tool has
\* the status the two others return for the same name; a query that passed
\* validation has all_successful = TRUE with three success records, its
\* prompt has no "Not available" and its fallback report no "Information
\* not available".
C20_TablesAgree ==
    /\ DOMAIN country_capitals = DOMAIN country_languages
    /\ DOMAIN country_languages = DOMAIN country_populations
    /\ (op \in Tools /\ pc = "done") =>
          \A t \in Tools : tool_execute(t, input).status = result.status
    /\ (op = "process_country_query" /\ validation # None /\ tool_results # None
          /\ validation.is_valid) =>
              /\ tool_results.all_successful
              /\ \A t \in Tools : tool_results[t].status = "success"
    /\ \A i \in 1..Len(gen_calls) :
          gen_calls[i].site = "generate_complete_report" =>
              \A t \in Tools : gen_calls[i].prompt[t] # "Not available"
    /\ (op = "process_country_query" /\ pc = "done" /\ FailedCalls # {}) =>
          /\ "report" \in DOMAIN result
          /\ \A t \in Tools : /\ t \in DOMAIN result.report
                              /\ result.report[t][2] # "Information not available"

\* the query for "  USA " has passed validation, all three tools succeeded
\* and the fallback report carries the three values
C20_Witness ==
    /\ op = "process_country_query"
    /\ pc = "done"
    /\ input = <<" "," ","U","S","A"," ">>
    /\ validation.is_valid
    /\ tool_results.all_successful
    /\ FailedCalls # {}
    /\ result.report.population = <<"Population: ", "341 million">>

\* a line of the session is being processed as a query
Processing == mode = "main" /\ op # "none"

\* C16: in the session of every program a line that is quit, exit, bye,
\* stop or goodbye in any letter case is not processed as a query: no
\* operation runs with it as its input.
C16_ExitTokensEndSession ==
    Processing => Lower(input) \notin {s_quit, s_exit, s_bye, s_stop, s_goodbye}

\* GEMINI_API_KEY is not set, or set to the empty string, which the
\* constructors do not tell apart
NoKey == ~api_key.set \/ api_key.value = <<>>

\* C17: without a key the process is either about to construct or has
\* ended; it never shows the prompt, runs no operation and makes no
\* provider call, and the configuration error is printed exactly once,
\* as the last message before the end.
C17_MissingKeyFatal ==
    (mode = "main" /\ NoKey) =>
        /\ pc \in {"start", "exited"}
        /\ op = "none"
        /\ gen_calls = <<>>
        /\ result = None
        /\ config_reports = (IF pc = "exited" THEN 1 ELSE 0)
        /\ output = (IF pc = "exited" THEN "config_error" ELSE "none")

\* the process has ended on the configuration error of a key that is not set
C17_Witness ==
    /\ mode = "main"
    /\ ~api_key.set
    /\ pc = "exited"
    /\ output = "config_error"
    /\ config_reports = 1

\* C18: an exception raised while a line is processed or read reaches the
\* handler of the loop, which reports it and returns to the prompt; the
\* loop is left only on an exit token (goodbye) or an interrupt (session
\* ended).
C18_FaultKeepsSession ==
    /\ [][(QueryFault \/ InputEOF) => (output' = "error" /\ pc' = "prompt")]_vars
    /\ [][(pc \notin {"start", "exited"} /\ pc' = "exited")
             => output' \in {"goodbye", "session_ended"}]_vars
    /\ [](pc = "exited" => output # "error")

\* after the report of an error the prompt is shown again
C18_Witness ==
    /\ mode = "main"
    /\ pc = "prompt"
    /\ output = "error"
    /\ op = "none"

\* the provider call of analyze_mood raised in this query
MoodAnalysisFailed ==
    /\ gen_calls # <<>>
    /\ gen_calls[1].site = "analyze_mood"
    /\ ~gen_calls[1].ok

\* C21: once the provider call of analyze_mood has failed, the analysis is
\* mood neutral with confidence medium, the failed call stays the only
\* provider call, the suggester is not entered, and run returns that
\* analysis with activity_suggestion None.
C21_FailedAnalysisNeutral ==
    MoodAnalysisFailed =>
        /\ ~raised
        /\ analysis = [mood |-> s_neutral, confidence |-> s_medium]
        /\ Len(gen_calls) = 1
        /\ pc \in {"handoff", "done"}
        /\ pc = "done" =>
              /\ DOMAIN result = {"user_message", "mood_analysis", "activity_suggestion"}
              /\ result.user_message = input
              /\ result.mood_analysis = [mood |-> s_neutral, confidence |-> s_medium]
              /\ result.activity_suggestion = None

\* run has returned for "I am sad" after the analysis call was refused by
\* the content filter: neutral, medium, and nothing suggested
C21_Witness ==
    /\ MoodAnalysisFailed
    /\ pc = "done"
    /\ input = <<"I"," ","a","m"," ","s","a","d">>
    /\ gen_calls[1].error = "content filtered"
    /\ "mood_analysis" \in DOMAIN result
    /\ result.mood_analysis.confidence = s_medium
    /\ result.activity_suggestion = None
=============================================================================
